---- MODULE Spec2Model ----
(***************************************************************************)
(* Rule 110 simulator (src/src/main.rs): the loader, the driver loop of    *)
(* main, and the four steppers simulate (policy), simulate_rayon,          *)
(* simulate_simd and simulate_ocl with its device kernel.                  *)
(*                                                                         *)
(* Buffers are functions over 0..n-1, so indices are the source's indices. *)
(* Cells are u8 values.                                                    *)
(***************************************************************************)
EXTENDS Integers, Sequences, FiniteSets, TLC

\* ------------------------------------------------------------------ bounds
\* every '0'/'1' file body of length 1..MaxLen is an input
MaxLen == 6
\* longer file bodies (patterned, see LongFiles) reach up to this length
MaxLongLen == 36
\* --iter ranges over 0..MaxIter
MaxIter == 2

\* ------------------------------------------------------- program constants
\* Simd<u8, 16>: number of lanes
lanes == 16
\* b'0' and b'1'
Byte0 == 48
Byte1 == 49
\* u8 modulus
U8 == 256

\* ------------------------------------------------------------ u8 helpers
RECURSIVE BitOr(_, _)
BitOr(a, b) ==
    IF a = 0 THEN b
    ELSE IF b = 0 THEN a
    ELSE (IF (a % 2 = 1) \/ (b % 2 = 1) THEN 1 ELSE 0) + 2 * BitOr(a \div 2, b \div 2)

\* u8 << k : bits shifted out of the byte are dropped
Shl8(a, k) == (a * (2 ^ k)) % U8

\* u8::saturating_sub
SatSub(a, b) == IF a >= b THEN a - b ELSE 0

\* vec![0u8; n]
Zeros(n) == [x \in 0..(n - 1) |-> 0]

BufLen(buf) == Cardinality(DOMAIN buf)

\* ------------------------------------------------------------ rule function
\* the rule with code 4 left out of the zero set
apply_rule_no4(val) == IF val \in {7, 0} THEN 0 ELSE 1

\* fn apply_rule(val: u8) -> u8
apply_rule(val) == IF val \in {7, 4, 0} THEN 0 ELSE 1

\* (input[i - 1] << 2) | (input[i] << 1) | input[i + 1]
NeighborCode(input, idx) ==
    BitOr(BitOr(Shl8(input[idx - 1], 2), Shl8(input[idx], 1)), input[idx + 1])

\* the lane select with the compare against 0 left out of the mask
SimdLaneNo0(left, mid, right) ==
    LET cc == BitOr(BitOr(Shl8(left, 2), Shl8(mid, 1)), right)
        mask == (cc = 7) \/ (cc = 4)
    IN  IF mask THEN 0 ELSE 1

\* one lane of the vector path: cc, the three simd_eq masks or-ed, mask.select(0, 1)
SimdLane(left, mid, right) ==
    LET cc == BitOr(BitOr(Shl8(left, 2), Shl8(mid, 1)), right)
        mask == (cc = 7) \/ (cc = 4) \/ (cc = 0)
    IN  IF mask THEN 0 ELSE 1

\* the device kernel's value for a code: (cc == 7 || cc == 4 || cc == 0) ? 0 : 1
KernelVal(cc) == IF (cc = 7 \/ cc = 4 \/ cc = 0) THEN 0 ELSE 1

\* the device kernel's code: uchar operands promote to int, the result is cut to uchar
KernelCode(input, idx) ==
    BitOr(BitOr(input[idx - 1] * 4, input[idx] * 2), input[idx + 1]) % U8

\* ------------------------------------------------------------------ loader
\* raw.iter().rposition(|&b| b == b'1'), as a 0-based position, -1 for None
RPosition1(raw) ==
    LET hits == {p \in 1..Len(raw) : raw[p] = Byte1}
    IN  IF hits = {} THEN 0 - 1 ELSE (CHOOSE p \in hits : \A q \in hits : q <= p) - 1

\* whether read_input_file returns (it exits when no '1' or when size > raw.len())
LoaderAccepts(raw) == RPosition1(raw) >= 0 /\ RPosition1(raw) + 2 <= Len(raw)

\* the generation read_input_file returns: raw truncated to pos + 2, each byte - b'0'
read_input_file(raw) ==
    LET size == RPosition1(raw) + 2
    IN  [x \in 0..(size - 1) |-> SatSub(raw[x + 1], Byte0)]

\* ----------------------------------------------------------------- stepper
\* input.len().saturating_sub(2)
EndOf(input) == SatSub(BufLen(input), 2)

\* out[1..=end] panics when end + 1 > out.len()
SlicePanics(out, end) == end + 1 > BufLen(out)

\* (1..=end).collect()
NaturalIndices(end) == [p \in 1..end |-> p]

\* fn simulate: the k-th slot of out[1..=end] receives the rule of the k-th index
simulate(input, out, idxs) ==
    LET end == EndOf(input)
        m == IF Len(idxs) < end THEN Len(idxs) ELSE end
    IN  [x \in DOMAIN out |->
            IF x \in 1..m
            THEN apply_rule(NeighborCode(input, idxs[x]))
            ELSE out[x]]

\* ------------------------------------------------------------------- state
VARIABLES
    raw,         \* the bytes read_input_file read after the size line
    version,     \* --version
    iter,        \* --iter
    pc,          \* position of the run
    inbuf,       \* main: inbuf (the stepper's input)
    outbuf,      \* main: outbuf (the stepper's out)
    indices,     \* main, policy branch: indices
    done,        \* rounds completed by the running loop
    printed,     \* population counts printed by main, in order
    i,           \* simulate_simd: i
    j,           \* simulate_simd: j of the scalar tail
    pending,     \* simulate_rayon: enumerate positions whose task has not run
    reads,       \* input indices read by the running stepper call
    writes,      \* per out index, the writes made by the running stepper call
    current,     \* simulate_ocl: current
    next,        \* simulate_ocl: next
    input_buf,   \* simulate_ocl: input_buf (device memory)
    output_buf,  \* simulate_ocl: output_buf (device memory)
    err          \* the device step whose result was Err, "" for none

vars == <<raw, version, iter, pc, inbuf, outbuf, indices, done, printed, i, j,
          pending, reads, writes, current, next, input_buf, output_buf, err>>

simdVars == <<i, j>>
oclVars == <<current, next, input_buf, output_buf, err>>
argVars == <<raw, version, iter>>

Versions == {"policy", "rayon", "simd", "ocl"}

\* ------------------------------------------------------------------ inputs
DeBruijn == <<0, 0, 0, 1, 0, 1, 1, 1>>

\* every file body over '0'/'1' of length 0..MaxLen
ShortFiles == UNION {[1..n -> {Byte0, Byte1}] : n \in 0..MaxLen}

\* longer bodies: the cyclic sequence holding every neighbourhood, at every shift
LongFiles ==
    {[p \in 1..n |-> Byte0 + DeBruijn[((p + s) % Len(DeBruijn)) + 1]] :
        n \in (MaxLen + 1)..MaxLongLen, s \in 0..(Len(DeBruijn) - 1)}

\* long bodies are given to the vector backend, whose batches need them
FilesFor(v) == IF v = "simd" THEN ShortFiles \cup LongFiles ELSE ShortFiles

Init ==
    /\ version \in Versions
    /\ raw \in FilesFor(version)
    /\ iter \in 0..MaxIter
    /\ pc = "load"
    /\ inbuf = Zeros(0)
    /\ outbuf = Zeros(0)
    /\ indices = <<>>
    /\ done = 0
    /\ printed = <<>>
    /\ i = 0
    /\ j = 0
    /\ pending = {}
    /\ reads = {}
    /\ writes = Zeros(0)
    /\ current = Zeros(0)
    /\ next = Zeros(0)
    /\ input_buf = Zeros(0)
    /\ output_buf = Zeros(0)
    /\ err = ""

\* -------------------------------------------------------------------- main
\* let initial_vec = read_input_file(..); inbuf = initial_vec; outbuf = vec![0; len]
Load ==
    /\ pc = "load"
    /\ IF LoaderAccepts(raw)
       THEN /\ inbuf' = read_input_file(raw)
            /\ outbuf' = Zeros(BufLen(read_input_file(raw)))
            /\ pc' = "match"
       ELSE /\ pc' = "exit"
            /\ UNCHANGED <<inbuf, outbuf>>
    /\ UNCHANGED <<argVars, indices, done, printed, simdVars, pending, reads, writes, oclVars>>

\* match args.version: the policy arm builds indices, the ocl arm calls simulate_ocl
MainMatch ==
    /\ pc = "match"
    /\ indices' = IF version = "policy" THEN NaturalIndices(EndOf(inbuf)) ELSE indices
    /\ pc' = IF version = "ocl" THEN "ocl_device" ELSE "loop"
    /\ UNCHANGED <<argVars, inbuf, outbuf, done, printed, simdVars, pending, reads, writes, oclVars>>

\* the two buffers exchanging roles instead of the copy
CloneStepSwap ==
    /\ inbuf' = outbuf
    /\ outbuf' = inbuf
    /\ done' = done + 1
    /\ pc' = "loop"

\* inbuf = outbuf.clone(), and the for loop's next iteration
CloneStep ==
    /\ inbuf' = outbuf
    /\ outbuf' = outbuf
    /\ done' = done + 1
    /\ pc' = "loop"

Clone ==
    /\ pc = "clone"
    /\ CloneStep
    /\ UNCHANGED <<argVars, indices, printed, simdVars, pending, reads, writes, oclVars>>

\* for _ in 0..args.iter is exhausted
LoopExit ==
    /\ pc = "loop"
    /\ done >= iter
    /\ pc' = "count"
    /\ UNCHANGED <<argVars, inbuf, outbuf, indices, done, printed, simdVars, pending, reads, writes, oclVars>>

\* inbuf.par_iter().filter(|&&v| v == 1).count()
Ones(buf) == Cardinality({x \in DOMAIN buf : buf[x] = 1})

\* println!("{ones}")
Count ==
    /\ pc = "count"
    /\ printed' = Append(printed, Ones(inbuf))
    /\ pc' = "done"
    /\ UNCHANGED <<argVars, inbuf, outbuf, indices, done, simdVars, pending, reads, writes, oclVars>>

\* ------------------------------------------------------------------ policy
\* simulate(&inbuf, &mut outbuf, &indices)
PolicyRound ==
    /\ pc = "loop"
    /\ version = "policy"
    /\ done < iter
    /\ IF SlicePanics(outbuf, EndOf(inbuf))
       THEN pc' = "panic" /\ UNCHANGED outbuf
       ELSE pc' = "clone" /\ outbuf' = simulate(inbuf, outbuf, indices)
    /\ UNCHANGED <<argVars, inbuf, indices, done, printed, simdVars, pending, reads, writes, oclVars>>

\* ------------------------------------------------------------------- rayon
\* simulate_rayon up to the parallel for_each: the slice, its enumerate positions
RayonEnter ==
    /\ pc = "loop"
    /\ version = "rayon"
    /\ done < iter
    /\ IF SlicePanics(outbuf, EndOf(inbuf))
       THEN pc' = "panic" /\ UNCHANGED <<pending, reads, writes>>
       ELSE /\ pc' = "rayon"
            /\ pending' = 0..(EndOf(inbuf) - 1)
            /\ reads' = {}
            /\ writes' = Zeros(BufLen(outbuf))
    /\ UNCHANGED <<argVars, inbuf, outbuf, indices, done, printed, simdVars, oclVars>>

\* the closure updating in place: the left neighbour read from out
RayonTaskValueInPlace(input, out, idx) ==
    apply_rule(BitOr(BitOr(Shl8(out[idx], 2), Shl8(input[idx + 1], 1)), input[idx + 2]))

\* the closure's value for enumerate position idx: i = idx + 1, cc from input
RayonTaskValue(input, out, idx) == apply_rule(NeighborCode(input, idx + 1))

\* the slot of out the closure's out_elem is: position idx of out[1..=end]
RayonTaskSlot(idx) == idx + 1

\* one closure call, run by whichever worker holds that element
RayonTask(idx) ==
    /\ pc = "rayon"
    /\ idx \in pending
    /\ outbuf' = [outbuf EXCEPT ![RayonTaskSlot(idx)] = RayonTaskValue(inbuf, outbuf, idx)]
    /\ pending' = pending \ {idx}
    /\ reads' = reads \cup {idx, idx + 1, idx + 2}
    /\ writes' = [writes EXCEPT ![RayonTaskSlot(idx)] = @ + 1]
    /\ UNCHANGED <<argVars, pc, inbuf, indices, done, printed, simdVars, oclVars>>

\* for_each returns when every element was visited
RayonJoin ==
    /\ pc = "rayon"
    /\ pending = {}
    /\ pc' = "clone"
    /\ UNCHANGED <<argVars, inbuf, outbuf, indices, done, printed, simdVars, pending, reads, writes, oclVars>>

\* -------------------------------------------------------------------- simd
\* the batch loop running one batch too far: i + lanes <= n
SimdLoopCondOffByOne(at, n) == at + lanes <= n

\* while i + lanes <= n - 1
SimdLoopCond(at, n) == at + lanes <= n - 1

\* the scalar tail's range is i..n - 1: its exclusive end
SimdTailEnd(n) == n - 1

\* simulate_simd up to the batch loop: n < 3 copies input to out and returns
SimdEnter ==
    /\ pc = "loop"
    /\ version = "simd"
    /\ done < iter
    /\ reads' = {}
    /\ writes' = Zeros(BufLen(outbuf))
    /\ IF BufLen(inbuf) < 3
       THEN /\ outbuf' = inbuf
            /\ pc' = "clone"
            /\ UNCHANGED simdVars
       ELSE /\ i' = 1
            /\ pc' = "simd_loop"
            /\ UNCHANGED <<outbuf, j>>
    /\ UNCHANGED <<argVars, inbuf, indices, done, printed, pending, oclVars>>

\* one full batch: three from_slice windows, lanewise rule, copy_to_slice
\* (a window or the out slice past the end of its buffer panics)
SimdBatch ==
    /\ pc = "simd_loop"
    /\ SimdLoopCond(i, BufLen(inbuf))
    /\ IF i + 1 + lanes > BufLen(inbuf) \/ i + lanes > BufLen(outbuf)
       THEN pc' = "panic" /\ UNCHANGED <<outbuf, i, reads, writes>>
       ELSE LET left  == [l \in 0..(lanes - 1) |-> inbuf[i - 1 + l]]
                mid   == [l \in 0..(lanes - 1) |-> inbuf[i + l]]
                right == [l \in 0..(lanes - 1) |-> inbuf[i + 1 + l]]
                val   == [l \in 0..(lanes - 1) |-> SimdLane(left[l], mid[l], right[l])]
            IN  /\ outbuf' = [x \in DOMAIN outbuf |->
                                 IF x \in i..(i + lanes - 1) THEN val[x - i] ELSE outbuf[x]]
                /\ writes' = [x \in DOMAIN writes |->
                                 IF x \in i..(i + lanes - 1) THEN writes[x] + 1 ELSE writes[x]]
                /\ reads' = reads \cup ((i - 1)..(i + lanes))
                /\ i' = i + lanes
                /\ pc' = "simd_loop"
    /\ UNCHANGED <<argVars, inbuf, indices, done, printed, j, pending, oclVars>>

\* the while condition fails: the scalar tail starts at j = i
SimdLoopExit ==
    /\ pc = "simd_loop"
    /\ ~SimdLoopCond(i, BufLen(inbuf))
    /\ j' = i
    /\ pc' = "simd_tail"
    /\ UNCHANGED <<argVars, inbuf, outbuf, indices, done, printed, i, pending, reads, writes, oclVars>>

\* one iteration of for j in i..n - 1 (an index past the end of a buffer panics)
SimdTailStep ==
    /\ pc = "simd_tail"
    /\ j < SimdTailEnd(BufLen(inbuf))
    /\ IF j < 1 \/ j + 1 >= BufLen(inbuf) \/ j >= BufLen(outbuf)
       THEN pc' = "panic" /\ UNCHANGED <<outbuf, j, reads, writes>>
       ELSE /\ outbuf' = [outbuf EXCEPT ![j] = apply_rule(NeighborCode(inbuf, j))]
            /\ writes' = [writes EXCEPT ![j] = @ + 1]
            /\ reads' = reads \cup {j - 1, j, j + 1}
            /\ j' = j + 1
            /\ pc' = "simd_tail"
    /\ UNCHANGED <<argVars, inbuf, indices, done, printed, i, pending, oclVars>>

\* the tail range is exhausted: simulate_simd returns
SimdReturn ==
    /\ pc = "simd_tail"
    /\ j >= SimdTailEnd(BufLen(inbuf))
    /\ pc' = "clone"
    /\ UNCHANGED <<argVars, inbuf, outbuf, indices, done, printed, simdVars, pending, reads, writes, oclVars>>

\* --------------------------------------------------------------------- ocl
\* device memory no one has written: its bytes are whatever the allocation held
Undef == 0 - 1

\* bytes an unwritten device cell may read back as
GarbageBytes == {0, 1, 255}

\* the fallible device steps before the round loop, in order, and of one round
OclSetupSteps == <<"ocl_device", "ocl_context", "ocl_queue", "ocl_program">>

OclAfter(step) ==
    CASE step = "ocl_device"     -> "ocl_context"
      [] step = "ocl_context"    -> "ocl_queue"
      [] step = "ocl_queue"      -> "ocl_program"
      [] step = "ocl_program"    -> "ocl_loop"
      [] step = "ocl_input_buf"  -> "ocl_output_buf"
      [] step = "ocl_output_buf" -> "ocl_kernel"
      [] step = "ocl_kernel"     -> "ocl_enq"
      [] step = "ocl_enq"        -> "ocl_read"
      [] step = "ocl_read"       -> "ocl_finish"
      [] step = "ocl_finish"     -> "ocl_swap"

\* the ? operator on an Err: simulate_ocl returns it at once
OclFail(step) ==
    /\ pc' = "ocl_err"
    /\ err' = step
    /\ UNCHANGED <<outbuf, current, next, input_buf, output_buf, done>>

\* Device::first, Context build, Queue::new, Program build; then the working buffers
OclSetup ==
    /\ pc \in {OclSetupSteps[k] : k \in 1..Len(OclSetupSteps)}
    /\ \E ok \in BOOLEAN :
        IF ok
        THEN /\ pc' = OclAfter(pc)
             /\ IF pc = "ocl_program"
                THEN current' = inbuf /\ next' = Zeros(BufLen(inbuf))
                ELSE UNCHANGED <<current, next>>
             /\ UNCHANGED <<outbuf, input_buf, output_buf, err, done>>
        ELSE OclFail(pc)
    /\ UNCHANGED <<argVars, inbuf, indices, printed, simdVars, pending, reads, writes>>

\* for _ in 0..iterations: another round, or out.copy_from_slice(&current); Ok(())
OclLoopHead ==
    /\ pc = "ocl_loop"
    /\ IF done < iter
       THEN pc' = "ocl_input_buf" /\ UNCHANGED outbuf
       ELSE pc' = "ocl_ok" /\ outbuf' = current
    /\ UNCHANGED <<argVars, inbuf, indices, done, printed, simdVars, pending, reads, writes, oclVars>>

\* input_buf: MEM_COPY_HOST_PTR with copy_host_slice(&current)
OclInputBuf ==
    /\ pc = "ocl_input_buf"
    /\ \E ok \in BOOLEAN :
        IF ok
        THEN /\ input_buf' = current
             /\ pc' = OclAfter(pc)
             /\ UNCHANGED <<outbuf, current, next, output_buf, err, done>>
        ELSE OclFail(pc)
    /\ UNCHANGED <<argVars, inbuf, indices, printed, simdVars, pending, reads, writes>>

\* output_buf: MEM_WRITE_ONLY, len n, no host data and no fill
OclOutputBuf ==
    /\ pc = "ocl_output_buf"
    /\ \E ok \in BOOLEAN :
        IF ok
        THEN /\ output_buf' = [x \in DOMAIN current |-> Undef]
             /\ pc' = OclAfter(pc)
             /\ UNCHANGED <<outbuf, current, next, input_buf, err, done>>
        ELSE OclFail(pc)
    /\ UNCHANGED <<argVars, inbuf, indices, printed, simdVars, pending, reads, writes>>

\* Kernel::builder() ... .build()
OclKernelBuild ==
    /\ pc = "ocl_kernel"
    /\ \E ok \in BOOLEAN :
        IF ok
        THEN /\ pc' = OclAfter(pc)
             /\ UNCHANGED <<outbuf, current, next, input_buf, output_buf, err, done>>
        ELSE OclFail(pc)
    /\ UNCHANGED <<argVars, inbuf, indices, printed, simdVars, pending, reads, writes>>

\* global_work_size(n.saturating_sub(2))
GlobalWorkSize(n) == SatSub(n, 2)

\* if (i >= n - 1) return; in uint arithmetic n - 1 is UINT_MAX when n = 0, which
\* no work-item index reaches
KernelReturns(at, n) == IF n = 0 THEN FALSE ELSE at >= n - 1

\* simulate_transform over the whole range: work-item gid handles i = gid + 1,
\* returns early or writes output[i]
simulate_transform(input, output, n) ==
    [x \in DOMAIN output |->
        IF /\ x - 1 \in 0..(GlobalWorkSize(n) - 1)
           /\ ~KernelReturns(x, n)
        THEN KernelVal(KernelCode(input, x))
        ELSE output[x]]

\* kernel.enq(): the in-order queue runs the kernel before the read that follows
OclEnq ==
    /\ pc = "ocl_enq"
    /\ \E ok \in BOOLEAN :
        IF ok
        THEN /\ output_buf' = simulate_transform(input_buf, output_buf, BufLen(current))
             /\ pc' = OclAfter(pc)
             /\ UNCHANGED <<outbuf, current, next, input_buf, err, done>>
        ELSE OclFail(pc)
    /\ UNCHANGED <<argVars, inbuf, indices, printed, simdVars, pending, reads, writes>>

\* what a readback of device memory can yield: written cells as written, the
\* others any byte
Readbacks(dev) ==
    LET unwritten == {x \in DOMAIN dev : dev[x] = Undef}
    IN  {[x \in DOMAIN dev |-> IF x \in unwritten THEN g[x] ELSE dev[x]] :
            g \in [unwritten -> GarbageBytes]}

\* output_buf.read(&mut next).enq()
OclRead ==
    /\ pc = "ocl_read"
    /\ \E ok \in BOOLEAN :
        IF ok
        THEN /\ next' \in Readbacks(output_buf)
             /\ pc' = OclAfter(pc)
             /\ UNCHANGED <<outbuf, current, input_buf, output_buf, err, done>>
        ELSE OclFail(pc)
    /\ UNCHANGED <<argVars, inbuf, indices, printed, simdVars, pending, reads, writes>>

\* queue.finish()
OclFinish ==
    /\ pc = "ocl_finish"
    /\ \E ok \in BOOLEAN :
        IF ok
        THEN /\ pc' = OclAfter(pc)
             /\ UNCHANGED <<outbuf, current, next, input_buf, output_buf, err, done>>
        ELSE OclFail(pc)
    /\ UNCHANGED <<argVars, inbuf, indices, printed, simdVars, pending, reads, writes>>

\* std::mem::swap(&mut current, &mut next), and the for loop's next iteration
OclSwap ==
    /\ pc = "ocl_swap"
    /\ current' = next
    /\ next' = current
    /\ done' = done + 1
    /\ pc' = "ocl_loop"
    /\ UNCHANGED <<argVars, inbuf, outbuf, indices, printed, simdVars, pending, reads, writes,
                   input_buf, output_buf, err>>

\* main: simulate_ocl(..).unwrap() on Ok, then inbuf = outbuf.clone()
OclUnwrapOk ==
    /\ pc = "ocl_ok"
    /\ inbuf' = outbuf
    /\ pc' = "count"
    /\ UNCHANGED <<argVars, outbuf, indices, done, printed, simdVars, pending, reads, writes, oclVars>>

\* the Err dropped instead of unwrapped: main goes on to count
OclUnwrapErrIgnored ==
    /\ pc = "ocl_err"
    /\ pc' = "count"
    /\ UNCHANGED <<argVars, inbuf, outbuf, indices, done, printed, simdVars, pending, reads, writes, oclVars>>

\* main: simulate_ocl(..).unwrap() on Err panics
OclUnwrapErr ==
    /\ pc = "ocl_err"
    /\ pc' = "panic"
    /\ UNCHANGED <<argVars, inbuf, outbuf, indices, done, printed, simdVars, pending, reads, writes, oclVars>>

\* ----------------------------------------------------------- specifications
Next ==
    \/ Load
    \/ MainMatch
    \/ PolicyRound
    \/ RayonEnter
    \/ \E idx \in pending : RayonTask(idx)
    \/ RayonJoin
    \/ SimdEnter
    \/ SimdBatch
    \/ SimdLoopExit
    \/ SimdTailStep
    \/ SimdReturn
    \/ Clone
    \/ LoopExit
    \/ Count
    \/ OclSetup
    \/ OclLoopHead
    \/ OclInputBuf
    \/ OclOutputBuf
    \/ OclKernelBuild
    \/ OclEnq
    \/ OclRead
    \/ OclFinish
    \/ OclSwap
    \/ OclUnwrapOk
    \/ OclUnwrapErr

\* a whole run of the program on a file the loader reads
Spec == Init /\ [][Next]_vars

\* one call of a host stepper on an arbitrary generation: the contract of
\* simulate, simulate_rayon and simulate_simd, outside main's loader
HostVersions == {"policy", "rayon", "simd"}

\* every {0,1} generation of length 0..MaxLen
ShortGens == UNION {[0..(n - 1) -> {0, 1}] : n \in 0..MaxLen}

LongGens ==
    {[x \in 0..(n - 1) |-> DeBruijn[((x + s) % Len(DeBruijn)) + 1]] :
        n \in (MaxLen + 1)..MaxLongLen, s \in 0..(Len(DeBruijn) - 1)}

GensFor(v) == IF v = "simd" THEN ShortGens \cup LongGens ELSE ShortGens

\* the target sequences of simulate's contract: distinct indices out of 1..n-2
IndexSeqs(n) ==
    {q \in UNION {[1..m -> 1..(n - 2)] : m \in 0..SatSub(n, 2)} :
        \A a, b \in 1..Len(q) : a # b => q[a] # q[b]}

StepInit ==
    /\ version \in HostVersions
    /\ inbuf \in GensFor(version)
    /\ outbuf = Zeros(BufLen(inbuf))
    /\ indices \in (IF version = "policy" THEN IndexSeqs(BufLen(inbuf)) ELSE {<<>>})
    /\ raw = <<>>
    /\ iter = 1
    /\ pc = "loop"
    /\ done = 0
    /\ printed = <<>>
    /\ i = 0
    /\ j = 0
    /\ pending = {}
    /\ reads = {}
    /\ writes = Zeros(0)
    /\ current = Zeros(0)
    /\ next = Zeros(0)
    /\ input_buf = Zeros(0)
    /\ output_buf = Zeros(0)
    /\ err = ""

StepNext ==
    \/ PolicyRound
    \/ RayonEnter
    \/ \E idx \in pending : RayonTask(idx)
    \/ RayonJoin
    \/ SimdEnter
    \/ SimdBatch
    \/ SimdLoopExit
    \/ SimdTailStep
    \/ SimdReturn

StepSpec == StepInit /\ [][StepNext]_vars

\* ------------------------------------------------------------------ claims
\* bit c of the binary constant 01101110 (LSB = code 0)
Rule110Bit(c) == (110 \div (2 ^ c)) % 2

\* the generation main starts from
Initial == read_input_file(raw)

\* the policy arm of main run for k rounds from (input, out): the final inbuf
RECURSIVE PolicyRun(_, _, _)
PolicyRun(input, out, k) ==
    IF k = 0 THEN input
    ELSE LET o == simulate(input, out, NaturalIndices(EndOf(input)))
         IN  PolicyRun(o, o, k - 1)

\* index 0 and index n-1 of a generation are 0
BoundaryZero(buf) ==
    BufLen(buf) >= 1 => buf[0] = 0 /\ buf[BufLen(buf) - 1] = 0

\* C1: for every initial generation of length >= 3 and every round count, each
\* backend ends with the final generation of the policy backend, cell for cell,
\* and prints its population count.
C1_BackendsAgree ==
    (pc = "done" /\ BufLen(Initial) >= 3) =>
        /\ inbuf = PolicyRun(Initial, Zeros(BufLen(Initial)), iter)
        /\ printed = <<Ones(PolicyRun(Initial, Zeros(BufLen(Initial)), iter))>>

\* C2: after each completed round, for every backend, the cells at index 0 and
\* index n-1 of the resulting generation are 0.
C2_BoundaryInvariant ==
    /\ (version \in HostVersions /\ pc = "loop" /\ done >= 1) => BoundaryZero(inbuf)
    /\ (version = "ocl" /\ pc = "ocl_loop" /\ done >= 1) => BoundaryZero(current)

\* C3: on every code 0..7 apply_rule is the rule-110 table (bit c of 01101110),
\* and the SIMD lane select and the kernel's ternary agree with it; every cell a
\* stepper has written holds the table's value for its neighbourhood.
C3_RuleTable ==
    /\ \A c \in 0..7 :
        /\ apply_rule(c) = Rule110Bit(c)
        /\ apply_rule(c) = (IF c \in {0, 4, 7} THEN 0 ELSE 1)
        /\ KernelVal(c) = apply_rule(c)
    /\ \A l, m, r \in {0, 1} : SimdLane(l, m, r) = apply_rule(4 * l + 2 * m + r)
    /\ pc \in {"rayon", "simd_loop", "simd_tail", "clone"} =>
        \A x \in DOMAIN writes :
          writes[x] >= 1 => outbuf[x] = Rule110Bit(4 * inbuf[x - 1] + 2 * inbuf[x] + inbuf[x + 1])
    /\ pc = "ocl_read" =>
        \A x \in DOMAIN output_buf :
            LET c == 4 * input_buf[x - 1] + 2 * input_buf[x] + input_buf[x + 1]
            IN  (output_buf[x] # Undef /\ c \in 0..7) => output_buf[x] = Rule110Bit(c)

\* a batch and a scalar tail step have both written, producing a 0 and a 1
C3_Witness ==
    /\ version = "simd"
    /\ pc = "simd_tail"
    /\ i > 1
    /\ j > i
    /\ \E x, y \in 1..(j - 1) : outbuf[x] = 0 /\ outbuf[y] = 1

\* the sequential stepper's output over the natural index sequence 1..n-2
Sequential(input, out) == simulate(input, out, NaturalIndices(EndOf(input)))

\* C4: for every length n >= 3 and every {0,1} input, one round of simulate_simd
\* into a zeroed output equals, at every index, one round of simulate over 1..n-2.
C4_VectorEqualsScalar ==
    (version = "simd" /\ pc = "clone" /\ done = 0 /\ BufLen(inbuf) >= 3) =>
        outbuf = Sequential(inbuf, Zeros(BufLen(inbuf)))

\* a call that ran a full batch and a tail of 1..lanes-1 cells has returned
C4_Witness ==
    /\ version = "simd"
    /\ pc = "clone"
    /\ i = 1 + lanes
    /\ j - i \in 1..(lanes - 1)
    /\ \E x \in 1..lanes : outbuf[x] = 1
    /\ \E x \in 1..lanes : outbuf[x] = 0

\* the enumerate positions whose closure has run
RayonRan == (0..(EndOf(inbuf) - 1)) \ pending

\* C5: in one round of simulate_rayon every task reads only the input and writes
\* its own slot exactly once, so in every interleaving the slots of the tasks
\* that ran hold the sequential stepper's values, the others are untouched, and
\* at the join the output is the sequential stepper's output over 1..n-2.
C5_RayonDeterminism ==
    (version = "rayon" /\ pc \in {"rayon", "clone"}) =>
        LET seq == Sequential(inbuf, Zeros(BufLen(inbuf)))
        IN  /\ \A x \in DOMAIN outbuf :
                IF x - 1 \in RayonRan
                THEN outbuf[x] = seq[x] /\ writes[x] = 1
                ELSE outbuf[x] = 0 /\ writes[x] = 0
            /\ reads \subseteq DOMAIN inbuf
            /\ pc = "clone" => (pending = {} /\ outbuf = seq)

\* mid-round, a later task has run before an earlier one and written a 1
C5_Witness ==
    /\ version = "rayon"
    /\ pc = "rayon"
    /\ 0 \in pending
    /\ 2 \notin pending
    /\ EndOf(inbuf) >= 3
    /\ outbuf[3] = 1

\* the output the contract of simulate describes: each target index holds its own
\* rule value, every other entry is unchanged
Scatter(input, out, idxs) ==
    [x \in DOMAIN out |->
        IF \E q \in 1..Len(idxs) : idxs[q] = x
        THEN apply_rule(NeighborCode(input, x))
        ELSE out[x]]

\* C6: for a zeroed output and any sequence of distinct targets out of 1..n-2,
\* after simulate every target index i holds rule(code at i) and every other
\* entry is still 0.
C6_SequentialContract ==
    (version = "policy" /\ pc = "clone") =>
        outbuf = Scatter(inbuf, Zeros(BufLen(inbuf)), indices)

\* C7: for a generation of length < 3 the run does not fail (short of a device
\* error) and the final generation equals the initial one.
C7_ShortNoOp ==
    (pc \in {"done", "panic"} /\ BufLen(Initial) < 3) =>
        /\ pc = "panic" => err # ""
        /\ pc = "done" => inbuf = Initial

\* C8: once a device step of simulate_ocl has failed, the run is at that step's
\* error, main has printed nothing, the caller's out buffer is as it was at
\* the call, and from then on no round is run, nothing is retried and nothing
\* is printed.
C8_FailureAllOrNothing ==
    /\ [](err # "" =>
            /\ pc \in {"ocl_err", "panic"}
            /\ outbuf = Zeros(BufLen(inbuf))
            /\ printed = <<>>)
    /\ [][err # "" =>
            /\ pc' = "panic"
            /\ err' = err
            /\ done' = done
            /\ outbuf' = outbuf
            /\ inbuf' = inbuf
            /\ printed' = printed]_vars

\* a readback failed in the second round, and main has panicked
C8_Witness ==
    /\ err = "ocl_read"
    /\ done = 1
    /\ pc = "panic"
    /\ \E x \in DOMAIN current : current[x] = 1

\* the host steppers' rounds: where a round starts, and where a stepper runs
RoundStart == version \in HostVersions /\ pc = "loop" /\ done < iter

InStepper == version \in HostVersions /\ pc \in {"loop", "rayon", "simd_loop", "simd_tail"}

\* C9 as stated: at the start of every round the output buffer handed to the
\* stepper is all zeros.
C9_ZeroedEveryRound == RoundStart => outbuf = Zeros(BufLen(outbuf))

\* C9 as amended: the output buffer is all zeros at the start of the first round
\* and a copy of current (the previous round's output) at the start of every
\* later one; a stepper never changes current; the round ends by copying the
\* output into current, so after iter rounds current holds the last output.
C9_DriverDiscipline ==
    /\ [](RoundStart => IF done = 0 THEN outbuf = Zeros(BufLen(inbuf)) ELSE outbuf = inbuf)
    /\ []((version \in HostVersions /\ pc = "done") =>
            /\ done = iter
            /\ iter >= 1 => inbuf = outbuf
            /\ iter = 0 => inbuf = Initial)
    /\ [][InStepper => inbuf' = inbuf]_vars
    /\ [][(version \in HostVersions /\ pc = "clone") => (inbuf' = outbuf /\ outbuf' = outbuf)]_vars

\* a later round starts with a non-zero output buffer that differs from zeros
C9_Witness ==
    /\ RoundStart
    /\ done >= 1
    /\ outbuf = inbuf
    /\ \E x \in DOMAIN outbuf : outbuf[x] = 1

\* C10: for n >= 3 the vector stepper never slices or indexes out of range, reads
\* only input indices 0..n-1, writes only indices 1..n-2 and each at most once,
\* has written each of 1..n-2 exactly once when it returns, and its loops
\* advance (i by a batch, j by one) within 1..n-1, so they terminate.
C10_VectorIndexSafety ==
    /\ []((version = "simd" /\ BufLen(inbuf) >= 3) =>
            /\ pc # "panic"
            /\ reads \subseteq 0..(BufLen(inbuf) - 1)
            /\ \A x \in DOMAIN writes :
                /\ writes[x] <= 1
                /\ writes[x] = 1 => x \in 1..(BufLen(inbuf) - 2)
            /\ pc = "simd_loop" => (i \in 1..(BufLen(inbuf) - 1) /\ \A x \in 1..(i - 1) : writes[x] = 1)
            /\ pc = "simd_tail" => (j \in i..(BufLen(inbuf) - 1) /\ \A x \in 1..(j - 1) : writes[x] = 1)
            /\ pc = "clone" => \A x \in 1..(BufLen(inbuf) - 2) : writes[x] = 1)
    /\ [][(pc = "simd_loop" /\ pc' = "simd_loop") => i' = i + lanes]_vars
    /\ [][(pc = "simd_tail" /\ pc' = "simd_tail") => j' = j + 1]_vars

\* a call on the longest generation has returned after two batches and a tail
C10_Witness ==
    /\ version = "simd"
    /\ pc = "clone"
    /\ BufLen(inbuf) >= 2 * lanes + 3
    /\ i = 1 + 2 * lanes
    /\ j > i
    /\ writes[BufLen(inbuf) - 2] = 1

====
